---- MODULE Spec2Model ----
(***************************************************************************)
(* Model of the Livepeer gateway stress-test scripts.                      *)
(*                                                                         *)
(*   "image"    src/scripts/livepeer/imageStressTest.ts (retrying, image)  *)
(*   "dual"     src/scripts/livepeer/dualStressTest.ts  (two gateways)     *)
(*   "llmRetry" src/tests/imageStressTest.ts:309-515    (retrying, LLM)    *)
(*   "noRetry"  src/tests/imageStressTest.ts:1-152      (single attempt;   *)
(*              lines 153-308 and 516-681 repeat the same pattern)         *)
(*                                                                         *)
(* One run of the model is one run of one script: main() executes its     *)
(* synchronous prefix, launches every makeRequest call (each runs          *)
(* synchronously up to its first await, the POST), then waits on           *)
(* Promise.all while the event loop delivers responses and timers.         *)
(* Time is a millisecond clock advanced by Tick and AdvanceToTimer.        *)
(***************************************************************************)
EXTENDS Integers, Sequences, FiniteSets, TLC

VARIABLES script, cfg, mainpc, exitCode, stderr, inv, now, ticks, logs,
          stats, summary, gwSummary, setting, readings

vars == <<script, cfg, mainpc, exitCode, stderr, inv, now, ticks, logs,
          stats, summary, gwSummary, setting, readings>>

\* setting and readings belong to the specifications of getArgValue and of
\* the prompt readers at the end of the module; a run of a script leaves
\* them alone
probes == <<setting, readings>>

(***************************************************************************)
(* Bounds of the model.                                                    *)
(***************************************************************************)
\* largest totalRequests of a single-gateway script
MaxRequests == 2
\* largest number of tasks a dual-gateway configuration may launch
MaxDualTasks == 2
\* number of Tick steps (each of TickMs) a run may take
MaxTicks == 1
\* granularity of the free-running clock, in ms
TickMs == 1000
\* largest number of images an image response refers to
MaxImages == 2
\* largest number of makeRequest calls of a run of LiveSpec
MaxLiveTasks == 1
\* largest number of command-line arguments
MaxArgs == 2
\* largest number of times a prompt key is read
MaxReads == 2

(***************************************************************************)
(* Program constants.                                                      *)
(***************************************************************************)
maxRetries == 3
MAX_RETRIES == 3
retryDelayMs == 2000
RETRY_DELAY_MS == 2000
RETRY_DELAY == 1000
TIMEOUT_MS == 300000
SuccessPauseMs == 1000

Scripts == {"image", "dual", "llmRetry", "noRetry"}
Types == {"llm", "image"}
Gateways == {1, 2}

(***************************************************************************)
(* The prompts file, as a sequence of tokens: the two keys (each standing  *)
(* for the text `llm_prompt=` / `img_prompt=`), newline, blank, and text.  *)
(***************************************************************************)
KLLM == "llm_prompt="
KIMG == "img_prompt="
NL == "\n"
SP == " "
IsSpace(tok) == tok \in {NL, SP}

\* String.prototype.trim on a token sequence
RECURSIVE TrimLeft(_)
TrimLeft(s) ==
    IF s = <<>> THEN <<>>
    ELSE IF IsSpace(Head(s)) THEN TrimLeft(Tail(s)) ELSE s

RECURSIVE TrimRight(_)
TrimRight(s) ==
    IF s = <<>> THEN <<>>
    ELSE IF IsSpace(s[Len(s)]) THEN TrimRight(SubSeq(s, 1, Len(s) - 1)) ELSE s

Trim(s) == TrimRight(TrimLeft(s))

\* index of the first occurrence of a token, 0 when there is none
FirstIndex(s, tok) ==
    IF \E i \in 1..Len(s) : s[i] = tok
    THEN CHOOSE i \in 1..Len(s) : s[i] = tok /\ \A j \in 1..(i - 1) : s[j] # tok
    ELSE 0

\* the suffix of s that starts at position p (1-based; empty when p > Len)
From(s, p) == SubSeq(s, p, Len(s))

\* the (.*) of /img_prompt\s*=\s*(.*)$/m : up to, not including, the next
\* newline
UpToNewline(s) ==
    IF FirstIndex(s, NL) = 0 THEN s ELSE SubSeq(s, 1, FirstIndex(s, NL) - 1)

\* the lookahead (?=\n\s*img_prompt|$) at the head of s
LookaheadAt(s) ==
    \/ s = <<>>
    \/ /\ Head(s) = NL
       /\ TrimLeft(Tail(s)) # <<>>
       /\ Head(TrimLeft(Tail(s))) = KIMG

\* the lazy (.*?) followed by that lookahead: the shortest prefix after which
\* the lookahead holds
LazyUpToLookahead(s) ==
    LET k == CHOOSE k \in 0..Len(s) :
                 /\ LookaheadAt(From(s, k + 1))
                 /\ \A j \in 0..(k - 1) : ~LookaheadAt(From(s, j + 1))
    IN  SubSeq(s, 1, k)

NoMatch == <<"<<no match>>">>

\* imageStressTest.ts readPrompt: /img_prompt=(.*?)$/s, then trim
readPromptImage(file) ==
    IF ~file.exists \/ FirstIndex(file.content, KIMG) = 0 THEN NoMatch
    ELSE Trim(From(file.content, FirstIndex(file.content, KIMG) + 1))

\* dualStressTest.ts readImagePrompt: /img_prompt\s*=\s*(.*)$/m, then trim
readImagePrompt(file) ==
    IF ~file.exists \/ FirstIndex(file.content, KIMG) = 0 THEN NoMatch
    ELSE Trim(UpToNewline(
             TrimLeft(From(file.content, FirstIndex(file.content, KIMG) + 1))))

\* dualStressTest.ts readLLMPrompt and the LLM script's readPrompt:
\* /llm_prompt\s*=\s*(.*?)(?=\n\s*img_prompt|$)/s, then trim.  The LLM
\* script's pattern has no \s* after the key; trim removes the same blanks.
readLLMPrompt(file) ==
    IF ~file.exists \/ FirstIndex(file.content, KLLM) = 0 THEN NoMatch
    ELSE Trim(LazyUpToLookahead(
             TrimLeft(From(file.content, FirstIndex(file.content, KLLM) + 1))))

\* a prompts file with both keys; PromptFiles adds files that lack a key,
\* one whose img_prompt is empty, and the missing file
FullPrompts == [exists |-> TRUE, content |-> <<KLLM, "a", NL, KIMG, "b">>]

PromptFiles ==
    { FullPrompts,
      [exists |-> TRUE,  content |-> <<KLLM, "a">>],
      [exists |-> TRUE,  content |-> <<KLLM, "a", NL, KIMG>>],
      [exists |-> TRUE,  content |-> <<KIMG, SP, "b", NL>>],
      [exists |-> TRUE,  content |-> <<"a", NL>>],
      [exists |-> FALSE, content |-> <<>>] }


\* prompts files with blanks around keys and values and with text after
\* the prompts, read by the specification of the prompt readers
ReadFiles ==
    PromptFiles \cup
    { [exists |-> TRUE,
       content |-> <<SP, KIMG, SP, "b", SP, NL, KLLM, SP, "a", SP>>],
      [exists |-> TRUE,
       content |-> <<KLLM, "a", NL, "c", NL, SP, KIMG, "b", NL, "c">>],
      [exists |-> TRUE,
       content |-> <<KIMG, NL, KLLM, NL>>] }

PromptKeys == {KIMG, KLLM}

\* the keys a script reads from the prompts file
KeysRead(s) ==
    CASE s = "image" -> {KIMG}
      [] s = "llmRetry" -> {KLLM}
      [] s = "dual" -> {KIMG, KLLM}
      [] OTHER -> {}

\* what a script's reader of `key` returns on `file` (NoMatch: it throws)
ReadOf(s, key, file) ==
    IF key = KLLM THEN readLLMPrompt(file)
    ELSE IF s = "image" THEN readPromptImage(file)
    ELSE readImagePrompt(file)

\* nothing has been read
NoReadings == [k \in PromptKeys |-> <<>>]

(***************************************************************************)
(* Settings of the dual script: getArgValue over the command line and the  *)
(* environment.  A string is the sequence of its characters.               *)
(***************************************************************************)
\* String.prototype.startsWith
startsWith(s, p) == Len(s) >= Len(p) /\ SubSeq(s, 1, Len(p)) = p

\* String.prototype.indexOf, 1-based; 0 when p does not occur in s
IndexOf(s, p) ==
    LET At(k) == SubSeq(s, k, k + Len(p) - 1) = p
        Hits == {k \in 1..(Len(s) - Len(p) + 1) : At(k)}
    IN  IF Hits = {} THEN 0
        ELSE CHOOSE k \in Hits : \A j \in Hits : k <= j

\* s.replace(p, ''), p a string: the first occurrence of p is removed
replace(s, p) ==
    IF IndexOf(s, p) = 0 THEN s
    ELSE SubSeq(s, 1, IndexOf(s, p) - 1)
         \o SubSeq(s, IndexOf(s, p) + Len(p), Len(s))

\* the value of an absent array element or environment variable
Undefined == <<"<<undefined>>">>

\* JavaScript truthiness of a string or undefined
Truthy(v) == v # Undefined /\ v # <<>>

\* args.find((a) => a.startsWith(flagPrefix))
find(args, flagPrefix) ==
    LET Hits == {k \in 1..Len(args) : startsWith(args[k], flagPrefix)}
    IN  IF Hits = {} THEN Undefined
        ELSE args[CHOOSE k \in Hits : \A j \in Hits : k <= j]

\* `--${flag}=`
FlagPrefix(flag) == <<"-", "-">> \o flag \o <<"=">>

\* mutant: the environment is consulted before the command line
getArgValue_envFirst(flag, envVar, defaultValue) ==
    LET flagPrefix == FlagPrefix(flag)
        arg == find(setting.args, flagPrefix)
    IN  IF Truthy(setting.env[envVar]) THEN setting.env[envVar]
        ELSE IF Truthy(arg) THEN replace(arg, flagPrefix)
        ELSE defaultValue

\* getArgValue, on the command line setting.args and the environment
\* setting.env
getArgValue(flag, envVar, defaultValue) ==
    LET flagPrefix == FlagPrefix(flag)
        arg == find(setting.args, flagPrefix)
    IN  IF Truthy(arg) THEN replace(arg, flagPrefix)
        ELSE IF Truthy(setting.env[envVar]) THEN setting.env[envVar]
        ELSE defaultValue

\* the flags, environment variables and strings the settings are drawn from
Flags == {<<"t">>, <<"t", "t">>}
EnvVars == {"TEST_GATEWAYS"}
ArgStrings ==
    { <<"-", "-", "t", "=", "x">>,
      <<"-", "-", "t", "=", "y">>,
      <<"-", "-", "t", "=">>,
      <<"-", "-", "t">>,
      <<"-", "-", "t", "t", "=", "x">>,
      <<"-", "-", "t", "=", "-", "-", "t", "=">>,
      <<"x", "-", "-", "t", "=", "y">>,
      <<"x">> }
EnvValues == {Undefined, <<>>, <<"e">>}
DefaultValues == {<<>>, <<"d">>}

RECURSIVE SeqsUpTo(_, _)
\* the sequences over S of length at most n
SeqsUpTo(S, n) ==
    IF n = 0 THEN {<<>>}
    ELSE LET Shorter == SeqsUpTo(S, n - 1)
         IN  Shorter \cup {Append(q, x) : q \in Shorter, x \in S}

Unresolved == <<"<<unresolved>>">>

\* no setting is being resolved
NoSetting ==
    [args |-> <<>>, env |-> [v \in EnvVars |-> Undefined], flag |-> <<>>,
     envVar |-> "TEST_GATEWAYS", defaultValue |-> <<>>, resolved |-> Unresolved]

(***************************************************************************)
(* Configuration.  gw1 is the gateway URL of a single-gateway script and   *)
(* GATEWAY1_URL of the dual script; n is totalRequests / CONCURRENT_REQUESTS.*)
(* images describes the gateway the run talks to: the number of entries of *)
(* `response.data.images` in its answers to an image request.              *)
(***************************************************************************)
TestModes == {"llm", "image", "both"}

TypeOfScript(s) == IF s = "llmRetry" THEN "llm" ELSE "image"

\* mutant: the dual script tests its URLs against undefined, which the
\* empty-string default of getArgValue never is
GatewayMissing_undefinedTest(s, c) ==
    IF s = "dual" THEN FALSE ELSE ~c.gw1

\* main: `if (!gatewayUrl)` / `if (!GATEWAY1_URL && !GATEWAY2_URL)`
GatewayMissing(s, c) ==
    IF s = "dual" THEN ~c.gw1 /\ ~c.gw2 ELSE ~c.gw1

WantsImage(c) == c.mode \in {"both", "image"}
WantsLLM(c) == c.mode \in {"both", "llm"}

\* mutant: the dual script reads its prompts only in mode "both"
PromptReadThrows_bothOnly(s, c) ==
    CASE s = "image"    -> readPromptImage(c.prompts) = NoMatch
      [] s = "llmRetry" -> readLLMPrompt(c.prompts) = NoMatch
      [] s = "dual"     -> /\ c.mode = "both"
                           /\ \/ readImagePrompt(c.prompts) = NoMatch
                              \/ readLLMPrompt(c.prompts) = NoMatch
      [] OTHER          -> FALSE

\* main: the prompt reads that throw (the error reaches main().catch)
PromptReadThrows(s, c) ==
    CASE s = "image"    -> readPromptImage(c.prompts) = NoMatch
      [] s = "llmRetry" -> readLLMPrompt(c.prompts) = NoMatch
      [] s = "dual"     -> \/ WantsImage(c) /\ readImagePrompt(c.prompts) = NoMatch
                           \/ WantsLLM(c) /\ readLLMPrompt(c.prompts) = NoMatch
      [] OTHER          -> FALSE

\* dual main: `imagePrompt ? {...} : null` and `llmPrompt ? {...} : null`
HasImagePayload(c) ==
    /\ WantsImage(c)
    /\ readImagePrompt(c.prompts) \notin {NoMatch, <<>>}

HasLLMPayload(c) ==
    /\ WantsLLM(c)
    /\ readLLMPrompt(c.prompts) \notin {NoMatch, <<>>}

\* addTasks: CONCURRENT_REQUESTS calls of makeRequest, requestNum = i + 1
addTasks(g, t, n) == [i \in 1..n |-> [g |-> g, t |-> t, num |-> i]]

\* the makeRequest calls main makes, in order
TaskPlan(s, c) ==
    IF s = "dual"
    THEN (IF c.gw1 /\ HasImagePayload(c) THEN addTasks(1, "image", c.n) ELSE <<>>)
         \o (IF c.gw1 /\ HasLLMPayload(c) THEN addTasks(1, "llm", c.n) ELSE <<>>)
         \o (IF c.gw2 /\ HasImagePayload(c) THEN addTasks(2, "image", c.n) ELSE <<>>)
         \o (IF c.gw2 /\ HasLLMPayload(c) THEN addTasks(2, "llm", c.n) ELSE <<>>)
    ELSE addTasks(1, TypeOfScript(s), c.n)

\* the scripts whose makeRequest downloads the images of a response
FetchesImages(s) == s \in {"image", "dual"}

\* the configurations a run is started with: totalRequests is
\* `Number(...) || default`, never 0; CONCURRENT_REQUESTS may be 0.  The
\* prompts files that lack a key or are missing, and the gateways whose
\* answers refer to images, are run with one request per call type.
Configs(s) ==
    IF s = "dual"
    THEN { c \in [gw1 : BOOLEAN, gw2 : BOOLEAN, mode : TestModes,
                  n : 0..MaxRequests, prompts : PromptFiles,
                  images : 0..MaxImages] :
             /\ Len(TaskPlan(s, c)) <= MaxDualTasks
             /\ c.prompts = FullPrompts \/ c.n = 1
             /\ c.images = 0 \/ (c.n = 1 /\ c.prompts = FullPrompts
                                       /\ WantsImage(c)) }
    ELSE { c \in [gw1 : BOOLEAN, gw2 : {FALSE}, mode : {TypeOfScript(s)},
                  n : 1..MaxRequests, prompts : PromptFiles,
                  images : 0..MaxImages] :
             /\ c.prompts = FullPrompts \/ c.n = 1
             /\ c.images = 0 \/ (c.n = 1 /\ c.prompts = FullPrompts
                                       /\ FetchesImages(s)) }

(***************************************************************************)
(* Log files and their lines.                                              *)
(***************************************************************************)
LogFiles == {"test_results", "gateway1_llm", "gateway1_image", "gateway2_llm",
             "gateway2_image", "gateway_summary", "dual_stress_test_errors"}

\* mutant: the dual script keeps one request log per gateway, whatever the
\* call type
LogFileOf_perGateway(s, g, t) ==
    IF s # "dual" THEN "test_results"
    ELSE IF g = 1 THEN "gateway1_llm" ELSE "gateway2_llm"

\* makeRequest (dual): the log file of a gateway and call type
LogFileOf(s, g, t) ==
    IF s # "dual" THEN "test_results"
    ELSE IF g = 1
         THEN (IF t = "llm" THEN "gateway1_llm" ELSE "gateway1_image")
         ELSE (IF t = "llm" THEN "gateway2_llm" ELSE "gateway2_image")

Line(kind, req, retries, start, duration) ==
    [kind |-> kind, req |-> req, retries |-> retries, start |-> start,
     duration |-> duration]

HeaderLine == Line("header", 0, 0, 0, 0)
TokensLine == Line("tokens", 0, 0, 0, 0)
ErrorLine == Line("error", 0, 0, 0, 0)
SummaryLine == Line("summary", 0, 0, 0, 0)

\* what main writes to the log files before it checks anything else
InitialLogs(s, c) ==
    [f \in LogFiles |->
        CASE s = "llmRetry" /\ f = "test_results" -> <<HeaderLine, TokensLine>>
          [] s \in {"image", "noRetry"} /\ f = "test_results" -> <<HeaderLine>>
          [] OTHER -> <<>>]

\* setupDirectories (dual): the log files of the selected call types
setupDirectories(c, lg) ==
    [f \in LogFiles |->
        IF \/ WantsLLM(c) /\ f \in {"gateway1_llm", "gateway2_llm"}
           \/ WantsImage(c) /\ f \in {"gateway1_image", "gateway2_image"}
        THEN <<HeaderLine>>
        ELSE lg[f]]

\* the file main().catch appends its error line to
ErrorLogOf(s) == IF s = "dual" THEN "dual_stress_test_errors" ELSE "test_results"


(***************************************************************************)
(* makeRequest: the retry loop.                                            *)
(***************************************************************************)
\* the retry ceiling of a script (the single-attempt scripts have no loop)
RetryLimit(s) ==
    CASE s = "image" -> maxRetries
      [] s = "dual" -> MAX_RETRIES
      [] s = "llmRetry" -> MAX_RETRIES
      [] OTHER -> 0

\* mutant: the next attempt is started without a delay
RetryDelay_none(s) == 0

\* the delay slept between a failed attempt and the next one
RetryDelay(s) ==
    CASE s = "image" -> retryDelayMs
      [] s = "dual" -> RETRY_DELAY_MS
      [] s = "llmRetry" -> RETRY_DELAY
      [] OTHER -> 0

\* mutant: `while (retryCount < maxRetries)`
LoopCond_strict(s, rc) == rc < RetryLimit(s)

\* `while (retryCount <= maxRetries)`
LoopCond(s, rc) == rc <= RetryLimit(s)

\* the start time an attempt measures from: the image script declares
\* startTime inside the loop, the others before it
AttemptStartTime(s, startTime, t) ==
    IF s = "image" THEN t ELSE startTime

\* mutant: the image script increments retryCount after its exhaustion test
CaughtRetryCount_late(s, rc) == rc

\* retryCount as the catch block tests it: the image script increments it
\* first (`retryCount++` at the top of the catch block)
CaughtRetryCount(s, rc) ==
    IF s = "image" THEN rc + 1 ELSE rc

\* mutant: the exhaustion test with > and >= exchanged
IsFinalAttempt_offByOne(s, rc) ==
    CASE s = "image" -> rc >= maxRetries
      [] s = "dual" -> rc > MAX_RETRIES
      [] s = "llmRetry" -> rc = MAX_RETRIES
      [] OTHER -> TRUE

\* the catch block's exhaustion test, on CaughtRetryCount
IsFinalAttempt(s, rc) ==
    CASE s = "image" -> rc > maxRetries
      [] s = "dual" -> rc >= MAX_RETRIES
      [] s = "llmRetry" -> rc = MAX_RETRIES
      [] OTHER -> TRUE

\* the number of retries the FAILED log line reports
FailedLogRetries(s, rc) ==
    IF s = "image" THEN rc - 1 ELSE rc

\* mutant: every script increments retryCount before the delay, the image
\* script a second time
NextRetryCount_twice(s, rc) == rc + 1

\* retryCount carried into the next attempt
NextRetryCount(s, rc) ==
    IF s = "image" THEN rc ELSE rc + 1

Result(success, duration, retryCount) ==
    [success |-> success, duration |-> duration, retryCount |-> retryCount]

NoResult == Result(FALSE, -1, -1)

\* mutant: the image script's failed outcome carries no retry count
FailedResult_uncounted(s, rc, duration) ==
    CASE s = "image" -> Result(FALSE, 0, 0)
      [] s = "dual" -> Result(FALSE, 0, rc)
      [] s = "llmRetry" -> Result(FALSE, duration, rc)
      [] OTHER -> Result(FALSE, duration, 0)

\* the outcome returned once the attempts are used up (the statement after
\* the loop, or the return inside the catch block); the single-attempt
\* scripts' outcome has no retry count, read as 0
FailedResult(s, rc, duration) ==
    CASE s = "image" -> Result(FALSE, 0, rc - 1)
      [] s = "dual" -> Result(FALSE, 0, rc)
      [] s = "llmRetry" -> Result(FALSE, duration, rc)
      [] OTHER -> Result(FALSE, duration, 0)

\* the outcome returned by the try block
SuccessResult(s, rc, duration) ==
    Result(TRUE, duration, IF s = "noRetry" THEN 0 ELSE rc)

(***************************************************************************)
(* gateway1Stats / gateway2Stats (dual script).                            *)
(***************************************************************************)
ZeroStats ==
    [success |-> 0, failure |-> 0, retries |-> 0, totalDuration |-> 0,
     requests |-> 0]

\* mutant: the counters are read when makeRequest is called (all zero: every
\* call is made before any response is handled) and written back from that
\* copy in the try block, so that concurrent invocations overwrite each other
StatsOnSuccess_stale(st, rc, duration) ==
    [ZeroStats EXCEPT !.success = @ + 1,
                      !.totalDuration = @ + duration,
                      !.requests = @ + 1,
                      !.retries = IF rc > 0 THEN @ + rc ELSE @]

\* "Update stats" in the try block
StatsOnSuccess(st, rc, duration) ==
    [st EXCEPT !.success = @ + 1,
               !.totalDuration = @ + duration,
               !.requests = @ + 1,
               !.retries = IF rc > 0 THEN @ + rc ELSE @]

\* mutant: a failed invocation is counted as a failure but not as a request
StatsOnFailure_unrequested(st, rc, duration) ==
    [st EXCEPT !.failure = @ + 1,
               !.retries = IF rc > 0 THEN @ + rc ELSE @]

\* mutant: the retries of an invocation that failed for good are not added
StatsOnFailure_retriesDropped(st, rc, duration) ==
    [st EXCEPT !.failure = @ + 1,
               !.requests = @ + 1]

\* "Update failure stats" in the catch block
StatsOnFailure(st, rc, duration) ==
    [st EXCEPT !.failure = @ + 1,
               !.requests = @ + 1,
               !.retries = IF rc > 0 THEN @ + rc ELSE @]

(***************************************************************************)
(* An invocation of makeRequest.  attempts, fails, firstStart and endTime   *)
(* are history variables: the number of POSTs issued, the number of        *)
(* attempts that ended in the catch block, the time the first attempt      *)
(* started and the time the invocation returned.  answered, imagesLeft and *)
(* lost describe the current attempt: whether its POST got a non-error     *)
(* response, how many images of that response are still to be downloaded   *)
(* (the first of them being requested), and how many downloads failed.     *)
(***************************************************************************)
\* the image GET is issued without a timeout (axios' default, 0: none)
NoTimer == -1

\* the invocation as it stands at its first await: retryCount = 0, the POST
\* of the first attempt issued, its timeout armed
StartInvocation(s, task, t) ==
    [g |-> task.g, t |-> task.t, num |-> task.num,
     pc |-> "post", retryCount |-> 0, startTime |-> t,
     timer |-> t + TIMEOUT_MS, attempts |-> 1, fails |-> 0,
     firstStart |-> t, endTime |-> -1, result |-> NoResult,
     answered |-> FALSE, imagesLeft |-> 0, lost |-> 0]

\* waiting with a timer armed: the POST's timeout or a sleep
Pending(i) == inv[i].pc \in {"post", "retrySleep", "okSleep"}
\* waiting for the answer to an image GET
Fetching(i) == inv[i].pc = "fetch"
Done(i) == inv[i].pc = "done"
\* mutant: main resumes when the first invocation has returned
\* (Promise.race in place of Promise.all)
AllSettled_first == inv = <<>> \/ \E i \in 1..Len(inv) : Done(i)

\* Promise.all(requests) has settled
AllSettled == \A i \in 1..Len(inv) : Done(i)


(***************************************************************************)
(* Summaries.                                                              *)
(***************************************************************************)
RECURSIVE SumDurations(_)
\* durations.reduce((acc, cur) => acc + cur, 0)
SumDurations(results) ==
    IF results = <<>> THEN 0
    ELSE Head(results).duration + SumDurations(Tail(results))

RECURSIVE SumRetries(_)
\* results.reduce((acc, r) => acc + (r.retries || 0), 0)
SumRetries(results) ==
    IF results = <<>> THEN 0
    ELSE Head(results).retryCount + SumRetries(Tail(results))

\* results.filter(r => r.success).length
successCount(results) ==
    Cardinality({i \in 1..Len(results) : results[i].success})

\* mutant: results.filter(r => !r.success && r.duration > 0).length
failureCount_timed(results) ==
    Cardinality({i \in 1..Len(results) :
                    ~results[i].success /\ results[i].duration > 0})

\* results.filter(r => !r.success).length
failureCount(results) ==
    Cardinality({i \in 1..Len(results) : ~results[i].success})

\* results.filter(r => (r.retryCount || 0) > 0).length
retriedCount(results) ==
    Cardinality({i \in 1..Len(results) : results[i].retryCount > 0})

\* results.filter(r => r.success && (r.retryCount || 0) > 0).length
retriedSuccessCount(results) ==
    Cardinality({i \in 1..Len(results) :
                    results[i].success /\ results[i].retryCount > 0})

NaN == -1

\* (sum / n).toFixed(2), in hundredths of a millisecond, rounded half up;
\* 0 / 0 is NaN
AvgCenti(sum, n) ==
    IF n = 0 THEN NaN ELSE (200 * sum + n) \div (2 * n)

\* mutant: writeSummary divides without testing `requests`
GatewayAvgCenti_unguarded(st) == AvgCenti(st.totalDuration, st.requests)

\* writeSummary: `requests ? (totalDuration / requests).toFixed(2) : 0`
GatewayAvgCenti(st) ==
    IF st.requests # 0 THEN AvgCenti(st.totalDuration, st.requests) ELSE 0

Absent == -2

NoSummary ==
    [written |-> FALSE, total |-> Absent, successes |-> Absent,
     failures |-> Absent, retried |-> Absent, retriedSuccess |-> Absent,
     totalRetries |-> Absent, avgCenti |-> Absent]

\* the "--- Final Results ---" block of a single-gateway script; the dual
\* script reports only tasks.length here ("Total requests attempted")
FinalResults(s, c, results) ==
    IF s = "dual"
    THEN [NoSummary EXCEPT !.written = TRUE, !.total = Len(results)]
    ELSE [written |-> TRUE,
          total |-> c.n,
          successes |-> successCount(results),
          failures |-> failureCount(results),
          retried |-> IF s = "image" THEN retriedCount(results) ELSE Absent,
          retriedSuccess |->
              IF s = "image" THEN retriedSuccessCount(results) ELSE Absent,
          totalRetries |->
              IF s = "llmRetry" THEN SumRetries(results) ELSE Absent,
          avgCenti |-> AvgCenti(SumDurations(results), Len(results))]

NoGatewaySummary ==
    [total |-> Absent, success |-> Absent, failures |-> Absent,
     retries |-> Absent, avgCenti |-> Absent]

\* writeSummary: one block per gateway and call type
writeSummary(st) ==
    [g \in Gateways |-> [t \in Types |->
        [total |-> st[g][t].requests,
         success |-> st[g][t].success,
         failures |-> st[g][t].failure,
         retries |-> st[g][t].retries,
         avgCenti |-> GatewayAvgCenti(st[g][t])]]]

(***************************************************************************)
(* Initial state: a script and its configuration, nothing run yet.         *)
(***************************************************************************)
Init ==
    /\ script \in Scripts
    /\ cfg \in Configs(script)
    /\ mainpc = "start"
    /\ exitCode = -1
    /\ stderr = <<>>
    /\ inv = <<>>
    /\ now = 0
    /\ ticks = 0
    /\ logs = [f \in LogFiles |-> <<>>]
    /\ stats = [g \in Gateways |-> [t \in Types |-> ZeroStats]]
    /\ summary = NoSummary
    /\ gwSummary = [g \in Gateways |-> [t \in Types |-> NoGatewaySummary]]
    /\ setting = NoSetting
    /\ readings = NoReadings

(***************************************************************************)
(* main, up to the first makeRequest call.                                 *)
(***************************************************************************)
\* the log files once main has reached its gateway check
LogsAtGatewayCheck(s, c) ==
    IF s = "dual" THEN [f \in LogFiles |-> <<>>] ELSE InitialLogs(s, c)

\* the log files once main has read its prompts
LogsAtPromptRead(s, c) ==
    IF s = "dual" THEN setupDirectories(c, LogsAtGatewayCheck(s, c))
    ELSE LogsAtGatewayCheck(s, c)

MainStart ==
    /\ mainpc = "start"
    /\ IF GatewayMissing(script, cfg)
       THEN \* console.error(...); process.exit(1)
            /\ logs' = LogsAtGatewayCheck(script, cfg)
            /\ stderr' = <<"gateway URL not set">>
            /\ mainpc' = "exited"
            /\ exitCode' = 1
       ELSE IF PromptReadThrows(script, cfg)
       THEN \* the throw rejects main(); main().catch logs it and the
            \* process ends normally
            /\ logs' = [LogsAtPromptRead(script, cfg) EXCEPT
                           ![ErrorLogOf(script)] = Append(@, ErrorLine)]
            /\ stderr' = <<"Error during stress test">>
            /\ mainpc' = "exited"
            /\ exitCode' = 0
       ELSE /\ logs' = LogsAtPromptRead(script, cfg)
            /\ stderr' = stderr
            /\ mainpc' = IF TaskPlan(script, cfg) = <<>> THEN "await"
                         ELSE "launch"
            /\ exitCode' = exitCode
    /\ UNCHANGED <<probes, script, cfg, inv, now, ticks, stats, summary, gwSummary>>

\* one makeRequest call of main's launch loop: the call runs synchronously
\* up to its first await, so the POST of its first attempt is issued here
MainLaunch ==
    /\ mainpc = "launch"
    /\ Len(inv) < Len(TaskPlan(script, cfg))
    /\ inv' = Append(inv,
                StartInvocation(script, TaskPlan(script, cfg)[Len(inv) + 1], now))
    /\ mainpc' = IF Len(inv) + 1 = Len(TaskPlan(script, cfg)) THEN "await"
                 ELSE "launch"
    /\ UNCHANGED <<probes, script, cfg, exitCode, stderr, now, ticks, logs, stats, summary,
                   gwSummary>>


(***************************************************************************)
(* The event loop: responses and timers are handled only while main waits  *)
(* on Promise.all.                                                         *)
(***************************************************************************)
\* mutant: the launch loop awaits, so handlers run between two launches
Running_duringLaunch == mainpc \in {"launch", "await"}

Running == mainpc = "await"

\* mutant: the failure counters are updated in the catch block before the
\* exhaustion test, at every failed attempt
Catch_countEveryFailure(i, outcome) ==
    LET r == inv[i]
        rc == CaughtRetryCount(script, r.retryCount)
        duration == now - r.startTime
        f == LogFileOf(script, r.g, r.t)
    IN  /\ stats' = IF script = "dual"
                    THEN [stats EXCEPT ![r.g][r.t] =
                             StatsOnFailure(@, rc, duration)]
                    ELSE stats
        /\ IF IsFinalAttempt(script, rc)
           THEN /\ inv' = [inv EXCEPT ![i] =
                             [r EXCEPT !.pc = "done",
                                       !.retryCount = rc,
                                       !.fails = @ + 1,
                                       !.answered = (outcome = "TypeError"),
                                       !.imagesLeft = 0,
                                       !.lost = 0,
                                       !.endTime = now,
                                       !.result =
                                           FailedResult(script, rc, duration)]]
                /\ logs' = [logs EXCEPT ![f] =
                              Append(@, Line("failed", r.num,
                                             FailedLogRetries(script, rc),
                                             r.startTime, duration))]
           ELSE /\ inv' = [inv EXCEPT ![i] =
                             [r EXCEPT !.pc = "retrySleep",
                                       !.retryCount = NextRetryCount(script, rc),
                                       !.fails = @ + 1,
                                       !.answered = (outcome = "TypeError"),
                                       !.imagesLeft = 0,
                                       !.lost = 0,
                                       !.timer = now + RetryDelay(script)]]
                /\ logs' = logs

\* the catch block of makeRequest, entered at time `now` by invocation i
\* whose attempt ended with `outcome`
Catch(i, outcome) ==
    LET r == inv[i]
        rc == CaughtRetryCount(script, r.retryCount)
        duration == now - r.startTime
        f == LogFileOf(script, r.g, r.t)
    IN  IF IsFinalAttempt(script, rc)
        THEN /\ inv' = [inv EXCEPT ![i] =
                          [r EXCEPT !.pc = "done",
                                    !.retryCount = rc,
                                    !.fails = @ + 1,
                                    !.answered = (outcome = "TypeError"),
                                    !.imagesLeft = 0,
                                    !.lost = 0,
                                    !.endTime = now,
                                    !.result = FailedResult(script, rc, duration)]]
             /\ logs' = [logs EXCEPT ![f] =
                           Append(@, Line("failed", r.num,
                                          FailedLogRetries(script, rc),
                                          r.startTime, duration))]
             /\ stats' = IF script = "dual"
                         THEN [stats EXCEPT ![r.g][r.t] =
                                  StatsOnFailure(@, rc, duration)]
                         ELSE stats
        ELSE /\ inv' = [inv EXCEPT ![i] =
                          [r EXCEPT !.pc = "retrySleep",
                                    !.retryCount = NextRetryCount(script, rc),
                                    !.fails = @ + 1,
                                    !.answered = (outcome = "TypeError"),
                                    !.imagesLeft = 0,
                                    !.lost = 0,
                                    !.timer = now + RetryDelay(script)]]
             /\ UNCHANGED <<logs, stats>>

\* the number of images invocation i downloads from a non-error response:
\* `if (response.data.images)` / `if (type === 'Image' && ...)`, then the
\* for loop over them
ImagesToFetch(i) ==
    IF FetchesImages(script) /\ inv[i].t = "image" THEN cfg.images ELSE 0

\* the POST of invocation i is answered with a non-error response and the
\* try block runs on to its next await: the GET of the first image, or
\* the pause when there is nothing to download
PostResolved(i) ==
    /\ Running
    /\ inv[i].pc = "post"
    /\ now < inv[i].timer
    /\ inv' = [inv EXCEPT ![i] =
                 IF ImagesToFetch(i) > 0
                 THEN [@ EXCEPT !.pc = "fetch",
                                !.answered = TRUE,
                                !.imagesLeft = ImagesToFetch(i),
                                !.timer = NoTimer]
                 ELSE [@ EXCEPT !.pc = "okSleep",
                                !.answered = TRUE,
                                !.timer = now + SuccessPauseMs]]
    /\ UNCHANGED <<probes, script, cfg, mainpc, exitCode, stderr, now, ticks, logs, stats,
                   summary, gwSummary>>

\* mutant: the inner catch block leaves the loop (`break`), so the images
\* after a failed one are not downloaded
AfterImage_abandon(r, failed) ==
    [r EXCEPT !.imagesLeft = IF failed THEN @ ELSE @ - 1,
              !.lost = IF failed THEN @ + 1 ELSE @,
              !.pc = IF r.imagesLeft > 1 /\ ~failed THEN "fetch" ELSE "okSleep",
              !.timer = IF r.imagesLeft > 1 /\ ~failed THEN NoTimer
                        ELSE now + SuccessPauseMs]

\* the image loop after the GET of an image has settled, `failed` telling
\* whether the inner catch block ran: the next GET is issued, or the pause
\* begins after the last image
AfterImage(r, failed) ==
    [r EXCEPT !.imagesLeft = @ - 1,
              !.lost = IF failed THEN @ + 1 ELSE @,
              !.pc = IF r.imagesLeft > 1 THEN "fetch" ELSE "okSleep",
              !.timer = IF r.imagesLeft > 1 THEN NoTimer
                        ELSE now + SuccessPauseMs]

\* the GET of an image is answered and the image is written to its file
GetResolved(i) ==
    /\ Running
    /\ inv[i].pc = "fetch"
    /\ inv' = [inv EXCEPT ![i] = AfterImage(@, FALSE)]
    /\ UNCHANGED <<probes, script, cfg, mainpc, exitCode, stderr, now, ticks, logs, stats,
                   summary, gwSummary>>

\* the GET of an image fails, or writing the file does: the inner catch
\* block reports it on the console and the loop goes on
GetFailed(i) ==
    /\ Running
    /\ inv[i].pc = "fetch"
    /\ inv' = [inv EXCEPT ![i] = AfterImage(@, TRUE)]
    /\ UNCHANGED <<probes, script, cfg, mainpc, exitCode, stderr, now, ticks, logs, stats,
                   summary, gwSummary>>

\* a non-error response whose body makes the image handling throw inside
\* the try block, outside the inner try: `response.data` is null or
\* `images` is not a list (thrown when the POST is answered), or an entry
\* of `images` after the first is null (thrown when the GET before it has
\* settled).  Control goes to the catch block of the attempt
ResponseHandlingThrows(i) ==
    /\ Running
    /\ inv[i].t = "image"
    /\ \/ inv[i].pc = "post" /\ now < inv[i].timer
       \/ inv[i].pc = "fetch" /\ inv[i].imagesLeft > 1
    /\ Catch(i, "TypeError")
    /\ UNCHANGED <<probes, script, cfg, mainpc, exitCode, stderr, now, ticks, summary,
                   gwSummary>>

\* the ways a POST fails before its timeout: no answer can be had from the
\* network, or the answer has a status outside 2xx
ErrorKinds == {"network", "status"}

\* the POST fails before its timeout
PostFailed(i) ==
    /\ Running
    /\ inv[i].pc = "post"
    /\ now < inv[i].timer
    /\ \E kind \in ErrorKinds : Catch(i, kind)
    /\ UNCHANGED <<probes, script, cfg, mainpc, exitCode, stderr, now, ticks, summary,
                   gwSummary>>

\* the POST has had no answer for TIMEOUT_MS: axios rejects it
PostTimedOut(i) ==
    /\ Running
    /\ inv[i].pc = "post"
    /\ inv[i].timer <= now
    /\ Catch(i, "timeout")
    /\ UNCHANGED <<probes, script, cfg, mainpc, exitCode, stderr, now, ticks, summary,
                   gwSummary>>

\* mutant: the retry timer is not tied to the sleeping invocation, so a new
\* attempt is started whatever the invocation is doing
RetryWake_anyState(i) ==
    /\ Running
    /\ inv[i].timer <= now
    /\ LET r == inv[i]
       IN  inv' = [inv EXCEPT ![i] =
                [r EXCEPT !.pc = "post",
                          !.answered = FALSE,
                          !.startTime = AttemptStartTime(script, @, now),
                          !.timer = now + TIMEOUT_MS,
                          !.attempts = @ + 1]]
    /\ UNCHANGED <<probes, script, cfg, mainpc, exitCode, stderr, now, ticks, logs, stats,
                   summary, gwSummary>>

\* the retry delay has passed: the loop condition is tested and the next
\* attempt's POST is issued
RetryWake(i) ==
    /\ Running
    /\ inv[i].pc = "retrySleep"
    /\ inv[i].timer <= now
    /\ LET r == inv[i]
       IN  inv' = [inv EXCEPT ![i] =
                IF LoopCond(script, r.retryCount)
                THEN [r EXCEPT !.pc = "post",
                               !.answered = FALSE,
                               !.startTime = AttemptStartTime(script, @, now),
                               !.timer = now + TIMEOUT_MS,
                               !.attempts = @ + 1]
                ELSE [r EXCEPT !.pc = "done",
                               !.endTime = now,
                               !.result = FailedResult(script, r.retryCount,
                                                       now - r.startTime)]]
    /\ UNCHANGED <<probes, script, cfg, mainpc, exitCode, stderr, now, ticks, logs, stats,
                   summary, gwSummary>>

\* the pause after a successful attempt has passed: duration, stats, log
\* line, return
OkWake(i) ==
    /\ Running
    /\ inv[i].pc = "okSleep"
    /\ inv[i].timer <= now
    /\ LET r == inv[i]
           duration == now - r.startTime
           f == LogFileOf(script, r.g, r.t)
       IN  /\ inv' = [inv EXCEPT ![i] =
                        [r EXCEPT !.pc = "done",
                                  !.endTime = now,
                                  !.result = SuccessResult(script, r.retryCount,
                                                           duration)]]
           /\ stats' = IF script = "dual"
                       THEN [stats EXCEPT ![r.g][r.t] =
                                StatsOnSuccess(@, r.retryCount, duration)]
                       ELSE stats
           /\ logs' = [logs EXCEPT ![f] =
                         Append(@, Line("ok", r.num, r.retryCount, r.startTime,
                                        duration))]
    /\ UNCHANGED <<probes, script, cfg, mainpc, exitCode, stderr, now, ticks, summary,
                   gwSummary>>

(***************************************************************************)
(* Time.  A timer is handled when it is due: the clock never passes one.   *)
(***************************************************************************)
PendingTimers == {inv[i].timer : i \in {j \in 1..Len(inv) : Pending(j)}}

Tick ==
    /\ Running
    /\ PendingTimers # {} \/ \E i \in 1..Len(inv) : Fetching(i)
    /\ ticks < MaxTicks
    /\ \A t \in PendingTimers : t >= now + TickMs
    /\ now' = now + TickMs
    /\ ticks' = ticks + 1
    /\ UNCHANGED <<probes, script, cfg, mainpc, exitCode, stderr, inv, logs, stats, summary,
                   gwSummary>>

\* a request (POST or image GET) of invocation i awaits its answer
InFlight(i) == inv[i].pc \in {"post", "fetch"}

\* the clock jumps to the next timer.  Answers to the requests in flight
\* come first (their latency is what Tick adds); only when every invocation
\* that has not returned waits for an answer does the clock run on to the
\* next timeout
AdvanceToTimer ==
    /\ Running
    /\ PendingTimers # {}
    /\ \A t \in PendingTimers : t > now
    /\ \/ \A i \in 1..Len(inv) : ~InFlight(i)
       \/ \A i \in 1..Len(inv) : ~Done(i) => InFlight(i)
    /\ now' = CHOOSE t \in PendingTimers : \A u \in PendingTimers : t <= u
    /\ UNCHANGED <<probes, script, cfg, mainpc, exitCode, stderr, inv, ticks, logs, stats,
                   summary, gwSummary>>

\* the clock runs on to the next timer whatever is in flight: a request may
\* stay unanswered for any length of time
TimerDue ==
    /\ Running
    /\ PendingTimers # {}
    /\ \A t \in PendingTimers : t > now
    /\ now' = CHOOSE t \in PendingTimers : \A u \in PendingTimers : t <= u
    /\ UNCHANGED <<probes, script, cfg, mainpc, exitCode, stderr, inv, ticks, logs, stats,
                   summary, gwSummary>>

(***************************************************************************)
(* main, after `await Promise.all(...)`.                                   *)
(***************************************************************************)
Results == [i \in 1..Len(inv) |-> inv[i].result]

\* mutant: makeRequest rejects when its attempts are used up, so that
\* Promise.all rejects and main().catch reports it
MainJoin_rejecting ==
    /\ Running
    /\ AllSettled
    /\ IF \E i \in 1..Len(inv) : ~inv[i].result.success
       THEN /\ logs' = [logs EXCEPT ![ErrorLogOf(script)] = Append(@, ErrorLine)]
            /\ stderr' = <<"Error during stress test">>
            /\ UNCHANGED <<summary, gwSummary>>
       ELSE /\ summary' = FinalResults(script, cfg, Results)
            /\ gwSummary' = IF script = "dual" THEN writeSummary(stats)
                            ELSE gwSummary
            /\ logs' = IF script = "dual"
                       THEN [logs EXCEPT !["gateway_summary"] = <<SummaryLine>>]
                       ELSE [logs EXCEPT !["test_results"] =
                                Append(@, SummaryLine)]
            /\ stderr' = stderr
    /\ mainpc' = "exited"
    /\ exitCode' = 0
    /\ UNCHANGED <<probes, script, cfg, inv, now, ticks, stats>>

MainJoin ==
    /\ Running
    /\ AllSettled
    /\ summary' = FinalResults(script, cfg, Results)
    /\ gwSummary' = IF script = "dual" THEN writeSummary(stats) ELSE gwSummary
    /\ logs' = IF script = "dual"
               THEN [logs EXCEPT !["gateway_summary"] = <<SummaryLine>>]
               ELSE [logs EXCEPT !["test_results"] = Append(@, SummaryLine)]
    /\ mainpc' = "exited"
    /\ exitCode' = 0
    /\ UNCHANGED <<probes, script, cfg, stderr, inv, now, ticks, stats>>

Next ==
    \/ MainStart
    \/ MainLaunch
    \/ \E i \in 1..Len(inv) : PostResolved(i)
    \/ \E i \in 1..Len(inv) : GetResolved(i)
    \/ \E i \in 1..Len(inv) : GetFailed(i)
    \/ \E i \in 1..Len(inv) : ResponseHandlingThrows(i)
    \/ \E i \in 1..Len(inv) : PostFailed(i)
    \/ \E i \in 1..Len(inv) : PostTimedOut(i)
    \/ \E i \in 1..Len(inv) : RetryWake(i)
    \/ \E i \in 1..Len(inv) : OkWake(i)
    \/ Tick
    \/ AdvanceToTimer
    \/ MainJoin

Spec == Init /\ [][Next]_vars

(***************************************************************************)
(* The runs checked for termination: the clock is free to run on, and what  *)
(* node guarantees is assumed: main runs on to its await, a timer that is  *)
(* due fires, time passes, and main resumes once Promise.all has settled.  *)
(* Nothing is assumed of the remote side: no answer need ever come.        *)
(***************************************************************************)
LiveInit ==
    /\ Init
    /\ Len(TaskPlan(script, cfg)) <= MaxLiveTasks

LiveNext ==
    \/ MainStart
    \/ MainLaunch
    \/ \E i \in 1..Len(inv) : PostResolved(i)
    \/ \E i \in 1..Len(inv) : GetResolved(i)
    \/ \E i \in 1..Len(inv) : GetFailed(i)
    \/ \E i \in 1..Len(inv) : ResponseHandlingThrows(i)
    \/ \E i \in 1..Len(inv) : PostFailed(i)
    \/ \E i \in 1..Len(inv) : PostTimedOut(i)
    \/ \E i \in 1..Len(inv) : RetryWake(i)
    \/ \E i \in 1..Len(inv) : OkWake(i)
    \/ Tick
    \/ TimerDue
    \/ MainJoin

\* the handlers of timers: the POST's timeout and the two sleeps
TimerFires(i) ==
    /\ i \in 1..Len(inv)
    /\ PostTimedOut(i) \/ RetryWake(i) \/ OkWake(i)

Fairness ==
    /\ WF_vars(MainStart)
    /\ WF_vars(MainLaunch)
    /\ \A i \in 1..MaxLiveTasks : WF_vars(TimerFires(i))
    /\ WF_vars(TimerDue)
    /\ WF_vars(MainJoin)

LiveSpec == LiveInit /\ [][LiveNext]_vars /\ Fairness


(***************************************************************************)
(* getArgValue and the prompt readers on their own: their inputs are drawn  *)
(* from bounded sets and the function is applied; no script is running.    *)
(***************************************************************************)
\* a configuration with nothing to run
IdleConfig ==
    [gw1 |-> FALSE, gw2 |-> FALSE, mode |-> "both", n |-> 0,
     prompts |-> FullPrompts, images |-> 0]

\* the variables of a run, before any run
NotRunning ==
    /\ mainpc = "start"
    /\ exitCode = -1
    /\ stderr = <<>>
    /\ inv = <<>>
    /\ now = 0
    /\ ticks = 0
    /\ logs = [f \in LogFiles |-> <<>>]
    /\ stats = [g \in Gateways |-> [t \in Types |-> ZeroStats]]
    /\ summary = NoSummary
    /\ gwSummary = [g \in Gateways |-> [t \in Types |-> NoGatewaySummary]]

ArgInit ==
    /\ script = "dual"
    /\ cfg = IdleConfig
    /\ NotRunning
    /\ setting \in [args : SeqsUpTo(ArgStrings, MaxArgs),
                    env : [EnvVars -> EnvValues],
                    flag : Flags,
                    envVar : EnvVars,
                    defaultValue : DefaultValues,
                    resolved : {Unresolved}]
    /\ readings = NoReadings

\* a setting is resolved when the module is loaded
ResolveSetting ==
    /\ setting.resolved = Unresolved
    /\ setting' = [setting EXCEPT !.resolved =
                      getArgValue(setting.flag, setting.envVar,
                                  setting.defaultValue)]
    /\ UNCHANGED <<readings, script, cfg, mainpc, exitCode, stderr, inv, now,
                   ticks, logs, stats, summary, gwSummary>>

ArgNext == ResolveSetting

ArgSpec == ArgInit /\ [][ArgNext]_vars

PromptInit ==
    /\ script \in {s \in Scripts : KeysRead(s) # {}}
    /\ cfg \in {[IdleConfig EXCEPT !.prompts = f] : f \in ReadFiles}
    /\ NotRunning
    /\ setting = NoSetting
    /\ readings = NoReadings

\* mutant: the reader takes the prompts out of the file it reads
ReadPrompt_consuming(key) ==
    /\ key \in KeysRead(script)
    /\ Len(readings[key]) < MaxReads
    /\ readings' = [readings EXCEPT
                       ![key] = Append(@, ReadOf(script, key, cfg.prompts))]
    /\ cfg' = [cfg EXCEPT !.prompts.content = <<>>]
    /\ UNCHANGED <<setting, script, mainpc, exitCode, stderr, inv, now, ticks,
                   logs, stats, summary, gwSummary>>

\* the script's reader of `key` is called: existsSync, readFileSync, match,
\* trim; nothing is written
ReadPrompt(key) ==
    /\ key \in KeysRead(script)
    /\ Len(readings[key]) < MaxReads
    /\ readings' = [readings EXCEPT
                       ![key] = Append(@, ReadOf(script, key, cfg.prompts))]
    /\ cfg' = cfg
    /\ UNCHANGED <<setting, script, mainpc, exitCode, stderr, inv, now, ticks,
                   logs, stats, summary, gwSummary>>

PromptNext == \E key \in PromptKeys : ReadPrompt(key)

PromptSpec == PromptInit /\ [][PromptNext]_vars

(***************************************************************************)
(* Properties.                                                             *)
(***************************************************************************)
Launched == 1..Len(inv)

\* the log file invocation i writes to, and the positions of its
\* terminal-outcome lines in it
LogOf(i) == logs[LogFileOf(script, inv[i].g, inv[i].t)]

OutcomeLines(i) ==
    {k \in 1..Len(LogOf(i)) :
        /\ LogOf(i)[k].req = inv[i].num
        /\ LogOf(i)[k].kind \in {"ok", "failed"}}

\* the retry ceiling the scripts are documented to have
Ceiling == IF script = "noRetry" THEN 0 ELSE 3

\* the retry delay of the running script, in ms
Delay == IF script = "llmRetry" THEN 1000 ELSE 2000

\* every attempt of the settled invocation i ended in the catch block
AllAttemptsFailed(i) == Done(i) /\ inv[i].fails = inv[i].attempts

\* the last attempt of the settled invocation i succeeded
LastAttemptSucceeded(i) == Done(i) /\ inv[i].fails < inv[i].attempts

\* wall-clock time from the start of the first attempt of i to its return
Elapsed(i) == inv[i].endTime - inv[i].firstStart

\* C1: an invocation whose every attempt fails makes exactly r + 1 attempts
\* and returns success = false with retry count r, r being the retry
\* ceiling (0 without retries, 3 with); with r = 3 its log file holds
\* exactly one line for it, "FAILED after 3 retries".
C1_PermanentFailure ==
    \A i \in Launched :
        AllAttemptsFailed(i) =>
            /\ inv[i].attempts = Ceiling + 1
            /\ ~inv[i].result.success
            /\ inv[i].result.retryCount = Ceiling
            /\ Ceiling = 3 =>
                 /\ Cardinality(OutcomeLines(i)) = 1
                 /\ \A k \in OutcomeLines(i) :
                        /\ LogOf(i)[k].kind = "failed"
                        /\ LogOf(i)[k].retries = 3

C1_Witness ==
    \E i \in Launched :
        /\ AllAttemptsFailed(i)
        /\ inv[i].attempts = 4
        /\ script = "dual"

\* C2: an invocation whose first k attempts fail and whose next attempt
\* succeeds (0 <= k <= ceiling) returns success = true with retry count k,
\* having made k + 1 attempts and no more.
C2_SuccessAfterKFailures ==
    \A i \in Launched :
        LastAttemptSucceeded(i) =>
            /\ inv[i].fails <= Ceiling
            /\ inv[i].result.success
            /\ inv[i].result.retryCount = inv[i].fails
            /\ inv[i].attempts = inv[i].fails + 1

C2_Witness ==
    \E i \in Launched :
        /\ LastAttemptSucceeded(i)
        /\ inv[i].fails = 2
        /\ inv[i].result.retryCount = 2

\* the number of requests configured for gateway g and call type t
ConfiguredFor(g, t) ==
    IF /\ (IF g = 1 THEN cfg.gw1 ELSE cfg.gw2)
       /\ (IF t = "image" THEN HasImagePayload(cfg) ELSE HasLLMPayload(cfg))
    THEN cfg.n ELSE 0

\* C3: once the batch has settled and the summary is written, its success
\* count plus its failure count equals the configured number of requests
\* (per gateway and call type in the dual script).
C3_SummaryCountsAddUp ==
    summary.written =>
        IF script = "dual"
        THEN \A g \in Gateways, t \in Types :
                gwSummary[g][t].success + gwSummary[g][t].failures
                    = ConfiguredFor(g, t)
        ELSE summary.successes + summary.failures = cfg.n

C3_Witness ==
    /\ summary.written
    /\ script = "image"
    /\ summary.successes = 1
    /\ summary.failures = 1

\* C4: the duration reported for a successful invocation runs from the
\* start of its first attempt to its return, so after k retries it is at
\* least k times the retry delay.
C4_DurationFromFirstAttempt ==
    \A i \in Launched :
        (Done(i) /\ inv[i].result.success) =>
            /\ inv[i].result.duration = Elapsed(i)
            /\ inv[i].result.duration >= inv[i].result.retryCount * Delay

\* C5: the outcome returned when the retries are used up carries the
\* duration from the first attempt's start to the final failure, the value
\* written into its FAILED log line.
C5_FailedOutcomeDuration ==
    \A i \in Launched :
        (Done(i) /\ ~inv[i].result.success) =>
            /\ inv[i].result.duration = Elapsed(i)
            /\ \A k \in OutcomeLines(i) :
                   LogOf(i)[k].duration = inv[i].result.duration

\* the duration invocation i is to contribute to an average: the duration
\* of its outcome when it succeeded, its elapsed time when it failed
Measured(i) ==
    IF inv[i].result.success THEN inv[i].result.duration ELSE Elapsed(i)

RECURSIVE SumMeasured(_)
\* the sum of the measured durations of the invocations in the set S
SumMeasured(S) ==
    IF S = {} THEN 0
    ELSE LET i == CHOOSE j \in S : TRUE
         IN  Measured(i) + SumMeasured(S \ {i})

InvocationsOf(g, t) == {i \in Launched : inv[i].g = g /\ inv[i].t = t}

\* C6: the average duration of a summary is the sum of the measured
\* durations of all outcomes it covers, failed ones included, divided by
\* their number.
C6_AverageOverAllOutcomes ==
    summary.written =>
        IF script = "dual"
        THEN \A g \in Gateways, t \in Types :
                InvocationsOf(g, t) # {} =>
                    gwSummary[g][t].avgCenti =
                        AvgCenti(SumMeasured(InvocationsOf(g, t)),
                                 Cardinality(InvocationsOf(g, t)))
        ELSE summary.avgCenti = AvgCenti(SumMeasured(Launched), Len(inv))

IsPrefix(a, b) == Len(a) <= Len(b) /\ SubSeq(b, 1, Len(a)) = a

\* C7: an invocation has exactly one terminal-outcome line in its log file
\* when it has returned and none before; and a line once in a log file
\* stays there, whatever any later step does.
C7_OneLinePerOutcome ==
    /\ [](\A i \in Launched :
            Cardinality(OutcomeLines(i)) = IF Done(i) THEN 1 ELSE 0)
    /\ [][\A f \in LogFiles : IsPrefix(logs[f], logs'[f])]_vars

C7_Witness ==
    \E i, j \in Launched :
        /\ i # j
        /\ Done(i) /\ ~Done(j)
        /\ inv[i].result.success
        /\ inv[j].fails = 3
        /\ LogFileOf(script, inv[i].g, inv[i].t)
               = LogFileOf(script, inv[j].g, inv[j].t)

\* the gateway URL the script requires is given
GatewayGiven == cfg.gw1 \/ (script = "dual" /\ cfg.gw2)

PostsIssued == \E i \in Launched : inv[i].attempts > 0

\* C8: with the required gateway URL absent the process reports the error
\* and exits with status 1, and no HTTP request is ever issued.
C8_MissingGatewayExits ==
    (~GatewayGiven /\ mainpc # "start") =>
        /\ mainpc = "exited"
        /\ exitCode = 1
        /\ stderr = <<"gateway URL not set">>
        /\ ~PostsIssued

C8_Witness ==
    /\ ~GatewayGiven
    /\ script = "dual"
    /\ exitCode = 1

\* the prompts file holds no `key` (a missing file holds none)
LacksKey(key) ==
    \A k \in 1..Len(cfg.prompts.content) : cfg.prompts.content[k] # key

\* the prompt keys the run reads
NeedsImageKey ==
    script = "image" \/ (script = "dual" /\ cfg.mode \in {"both", "image"})

NeedsLLMKey ==
    script = "llmRetry" \/ (script = "dual" /\ cfg.mode \in {"both", "llm"})

MissingPrompt ==
    \/ NeedsImageKey /\ LacksKey(KIMG)
    \/ NeedsLLMKey /\ LacksKey(KLLM)

SummaryInLogs ==
    \E f \in LogFiles : \E k \in 1..Len(logs[f]) : logs[f][k] = SummaryLine

\* C9: when the prompts file lacks a key the run needs, the run aborts with
\* an error before any HTTP request is issued, and no summary is written.
C9_MissingPromptAborts ==
    (GatewayGiven /\ MissingPrompt /\ mainpc # "start") =>
        /\ mainpc = "exited"
        /\ stderr = <<"Error during stress test">>
        /\ ~PostsIssued
        /\ ~summary.written
        /\ ~SummaryInLogs

C9_Witness ==
    /\ GatewayGiven
    /\ script = "dual"
    /\ cfg.mode = "image"
    /\ LacksKey(KIMG) /\ ~LacksKey(KLLM)
    /\ mainpc = "exited"

\* C10: the process ends with a non-zero status exactly when a configuration
\* error occurred (missing gateway URL or missing prompt); every other run
\* ends with status 0 after the summary is written.
C10_ExitStatus ==
    mainpc = "exited" =>
        /\ exitCode # 0 <=> (~GatewayGiven \/ MissingPrompt)
        /\ (GatewayGiven /\ ~MissingPrompt) => summary.written

\* every launched invocation has returned, and every one of them failed
BatchFailed ==
    /\ Launched # {}
    /\ \A i \in Launched : Done(i) /\ ~inv[i].result.success

\* C11: a failed request is never raised out of makeRequest and never makes
\* the join reject: once every invocation has returned main can go on to
\* its summary; a run that launched requests ends with the summary written
\* and nothing reported as an error; and when every request failed the
\* summary shows zero successes and as many failures as requests.
C11_FailuresNeverRaised ==
    /\ (Running /\ \A i \in Launched : Done(i)) => ENABLED MainJoin
    /\ (mainpc = "exited" /\ Launched # {}) =>
          /\ summary.written
          /\ stderr = <<>>
          /\ exitCode = 0
          /\ \A k \in 1..Len(logs[ErrorLogOf(script)]) :
                 logs[ErrorLogOf(script)][k] # ErrorLine
    /\ (mainpc = "exited" /\ BatchFailed) =>
          IF script = "dual"
          THEN \A g \in Gateways, t \in Types :
                  /\ gwSummary[g][t].success = 0
                  /\ gwSummary[g][t].failures = Cardinality(InvocationsOf(g, t))
          ELSE /\ summary.successes = 0
               /\ summary.failures = Len(inv)

C11_Witness ==
    /\ mainpc = "exited"
    /\ BatchFailed
    /\ Len(inv) = 2
    /\ script = "dual"
    /\ \E i \in Launched : inv[i].fails = 4 /\ now >= TIMEOUT_MS

\* C12: an attempt whose POST got a non-error response ends the invocation
\* with success = true: from that response on the invocation only downloads
\* images, pauses and returns its success; no attempt of it is counted as
\* failed and no further POST is made, whatever the processing of the
\* response does.
C12_AnsweredMeansSuccess ==
    \A i \in Launched :
        inv[i].answered =>
            /\ inv[i].pc \in {"fetch", "okSleep", "done"}
            /\ inv[i].attempts = inv[i].fails + 1
            /\ Done(i) => inv[i].result.success

\* C13: a failed download (or save) of an image of a non-error response is
\* swallowed.  The step in which it fails changes neither the retry count
\* nor the number of POSTs nor any log file or counter, and goes on to the
\* next image of the response (to the pause after the last one); and an
\* invocation that lost an image goes through all images of the response
\* and returns success = true with the retry count it had, without another
\* POST.
C13_ImageFailureSwallowed ==
    /\ [](\A i \in Launched :
            inv[i].lost > 0 =>
                /\ inv[i].pc \in {"fetch", "okSleep", "done"}
                /\ inv[i].attempts = inv[i].fails + 1
                /\ inv[i].pc # "fetch" => inv[i].imagesLeft = 0
                /\ Done(i) => /\ inv[i].result.success
                              /\ inv[i].result.retryCount = inv[i].fails)
    /\ [][\A i \in Launched :
            inv'[i].lost > inv[i].lost =>
                /\ inv'[i].retryCount = inv[i].retryCount
                /\ inv'[i].attempts = inv[i].attempts
                /\ inv'[i].fails = inv[i].fails
                /\ inv'[i].imagesLeft = inv[i].imagesLeft - 1
                /\ inv'[i].pc = IF inv[i].imagesLeft > 1 THEN "fetch"
                                ELSE "okSleep"
                /\ logs' = logs
                /\ stats' = stats]_vars

C13_Witness ==
    \E i \in Launched :
        /\ Done(i)
        /\ inv[i].lost = 1
        /\ cfg.images = 2
        /\ inv[i].result.success
        /\ inv[i].result.retryCount = 1

\* C14 as stated: in every reachable state the retry counter of every
\* invocation is at most max_retries (3) and at most max_retries + 1 POST
\* attempts have been started.
C14_RetryCountBounded ==
    \A i \in Launched :
        /\ inv[i].retryCount <= 3
        /\ inv[i].attempts <= 3 + 1

\* C14, amended: at most ceiling + 1 POST attempts are started and the
\* retry count an invocation reports, in its outcome and in its log line, is
\* at most the ceiling; the counter itself is at most the ceiling while the
\* invocation runs, and one more than it in the image script once the last
\* attempt has failed (it is incremented before the exhaustion test).
C14_ReportedRetryCountBounded ==
    \A i \in Launched :
        /\ inv[i].attempts <= Ceiling + 1
        /\ ~Done(i) => inv[i].retryCount <= Ceiling
        /\ Done(i) =>
              /\ inv[i].result.retryCount <= Ceiling
              /\ inv[i].retryCount <=
                    IF script = "image" /\ ~inv[i].result.success
                    THEN Ceiling + 1 ELSE Ceiling
        /\ \A k \in OutcomeLines(i) : LogOf(i)[k].retries <= Ceiling

C14_Witness ==
    \E i \in Launched :
        /\ script = "image"
        /\ Done(i)
        /\ inv[i].attempts = 4
        /\ inv[i].retryCount = 4
        /\ inv[i].result.retryCount = 3

\* the ways an attempt fails that C15 names
FailureKinds == ErrorKinds \cup {"timeout"}

\* C15: a failed attempt is handled the same way whatever made it fail
\* (network error, non-2xx status, timeout).  While attempts remain the
\* failure writes no log line and changes no counter, and arms the retry
\* delay; the next POST is issued only from that sleep, once the delay has
\* passed, and carries a retry count one higher than the attempt before.
\* The failure of the last attempt returns the outcome in the same step.
C15_FailedAttemptHandling ==
    /\ [](\A i \in Launched :
            inv[i].pc = "post" => inv[i].retryCount = inv[i].attempts - 1)
    /\ [][\A i \in Launched :
            /\ inv[i].pc = "post" =>
                  \A k1, k2 \in FailureKinds : Catch(i, k1) <=> Catch(i, k2)
            /\ inv'[i].fails = inv[i].fails + 1 =>
                  IF inv[i].attempts <= Ceiling
                  THEN /\ inv'[i].pc = "retrySleep"
                       /\ inv'[i].timer = now + Delay
                       /\ inv'[i].attempts = inv[i].attempts
                       /\ logs' = logs
                       /\ stats' = stats
                  ELSE /\ inv'[i].pc = "done"
                       /\ inv'[i].endTime = now
                       /\ ~inv'[i].result.success
            /\ inv'[i].attempts = inv[i].attempts + 1 =>
                  /\ inv[i].pc = "retrySleep"
                  /\ inv[i].timer <= now
                  /\ inv'[i].pc = "post"
            /\ (inv[i].pc = "retrySleep" /\ inv'[i].pc = "retrySleep") =>
                  inv'[i].timer = inv[i].timer]_vars

\* a network error at once, the retry delay, then a timeout of the second
\* attempt: the invocation sleeps the retry delay again
C15_Witness ==
    \E i \in Launched :
        /\ inv[i].pc = "retrySleep"
        /\ inv[i].fails = 2
        /\ now = Delay + TIMEOUT_MS
        /\ inv[i].timer = now + Delay

\* the states of the invocation state machine: Attempting (the POST, and
\* the work on its non-error response), Retrying (the retry delay), Terminal
Attempting(i) == inv[i].pc \in {"post", "fetch", "okSleep"}
Retrying(i) == inv[i].pc = "retrySleep"

\* the moves of the state machine
Moves ==
    {<<"post", "fetch">>, <<"post", "okSleep">>, <<"fetch", "fetch">>,
     <<"fetch", "okSleep">>, <<"okSleep", "done">>,
     <<"post", "retrySleep">>, <<"fetch", "retrySleep">>,
     <<"retrySleep", "post">>,
     <<"post", "done">>, <<"fetch", "done">>}

\* C16: an invocation is launched Attempting and moves only along
\* Attempting -> (Succeeded | Retrying -> Attempting) -> Terminal.  Its
\* attempts are sequential: exactly one is under way while it is Attempting
\* and none while it is Retrying, and a new one starts only from Retrying,
\* after the one before has failed.  Terminal is absorbing, and an
\* invocation has an outcome exactly when it is Terminal: a success when its
\* last attempt succeeded, a failure when all failed.
C16_InvocationStateMachine ==
    /\ [](\A i \in Launched :
            /\ Attempting(i) \/ Retrying(i) \/ Done(i)
            /\ Attempting(i) => inv[i].attempts = inv[i].fails + 1
            /\ Retrying(i) => inv[i].attempts = inv[i].fails
            /\ Done(i) <=> inv[i].result # NoResult
            /\ Done(i) => (inv[i].result.success <=> inv[i].attempts = inv[i].fails + 1)
            /\ Done(i) => (~inv[i].result.success <=> inv[i].attempts = inv[i].fails))
    /\ [][/\ \A i \in Launched :
              /\ inv'[i] # inv[i] => <<inv[i].pc, inv'[i].pc>> \in Moves
              /\ inv'[i].attempts # inv[i].attempts =>
                    /\ Retrying(i)
                    /\ inv'[i].attempts = inv[i].attempts + 1
                    /\ inv[i].fails = inv[i].attempts
              /\ Done(i) => inv'[i] = inv[i]
          /\ \A j \in 1..Len(inv') :
                j \notin Launched =>
                   /\ inv'[j].pc = "post"
                   /\ inv'[j].attempts = 1
                   /\ inv'[j].fails = 0]_vars

C16_Witness ==
    \E i \in Launched :
        /\ script = "llmRetry"
        /\ Done(i)
        /\ inv[i].attempts = 3
        /\ inv[i].result.success

\* C17: every launched invocation eventually reaches its terminal state and
\* the batch eventually writes its summary, whatever the remote side does
\* or fails to do.
C17_EveryInvocationTerminates ==
    /\ \A i \in 1..MaxLiveTasks :
          (i \in Launched) ~> (i \in Launched /\ Done(i))
    /\ (mainpc = "await") ~> summary.written

\* every makeRequest call of the run has been made
AllLaunched == Len(inv) = Len(TaskPlan(script, cfg))

\* invocation i is where its launch left it: the POST of its first attempt
\* in flight, nothing of it handled yet
FirstAttemptInFlight(i) ==
    /\ inv[i].pc = "post"
    /\ inv[i].attempts = 1
    /\ inv[i].fails = 0
    /\ ~inv[i].answered

\* C18: the first attempt of every invocation of the batch is issued before
\* the response (or failure) of any of them is handled and before any time
\* is waited: until all are launched every launched invocation has its
\* first POST in flight, and all first attempts start at the same time.
C18_AllIssuedBeforeAnyHandled ==
    /\ ~AllLaunched =>
          /\ now = 0
          /\ \A i \in Launched : FirstAttemptInFlight(i)
    /\ (\E i \in Launched : ~FirstAttemptInFlight(i)) => AllLaunched
    /\ \A i, j \in Launched : inv[i].firstStart = inv[j].firstStart

\* as many requests in flight as the batch has invocations
C18_Witness ==
    /\ AllLaunched
    /\ Len(inv) = MaxRequests
    /\ script = "image"
    /\ mainpc = "await"
    /\ \A i \in Launched : FirstAttemptInFlight(i)

\* the positions of the summary block in log file f
SummaryAt(f) == {k \in 1..Len(logs[f]) : logs[f][k] = SummaryLine}

\* C19: the summary is computed and written only when every invocation of
\* the batch has been launched and has returned, from their outcomes; by
\* then each has its terminal-outcome line in its log file, and in a log
\* file that holds the summary block the block is the last entry, after
\* every terminal-outcome line.
C19_SummaryAfterAllOutcomes ==
    /\ summary.written <=> SummaryInLogs
    /\ summary.written =>
          /\ AllLaunched
          /\ \A i \in Launched : Done(i) /\ OutcomeLines(i) # {}
          /\ summary = FinalResults(script, cfg, Results)
          /\ script = "dual" => gwSummary = writeSummary(stats)
    /\ \A f \in LogFiles : \A k \in SummaryAt(f) :
          /\ k = Len(logs[f])
          /\ \A i \in Launched :
                LogFileOf(script, inv[i].g, inv[i].t) = f =>
                    \A j \in OutcomeLines(i) : j < k

C19_Witness ==
    /\ summary.written
    /\ script = "llmRetry"
    /\ Len(inv) = 2
    /\ Len(logs["test_results"]) = 5
    /\ logs["test_results"][3].kind = "failed"
    /\ logs["test_results"][4].kind = "ok"
    /\ logs["test_results"][5] = SummaryLine

\* the log files of the dual script's requests
RequestLogs == {LogFileOf("dual", g, t) : g \in Gateways, t \in Types}

\* C20: in the dual script the counters of a gateway and call type, and the
\* request log files, change only in the step in which an invocation reaches
\* its terminal outcome.  A step of an invocation that is not its last (an
\* attempt failing with retries left, the end of the retry delay and the
\* start of the next attempt, a response that is yet to be processed) and
\* the passing of time leave every counter and every log file as they are;
\* so the counters count the invocations that have returned.
C20_CountersChangeAtOutcome ==
    /\ [](script = "dual" =>
            \A g \in Gateways, t \in Types :
                stats[g][t].requests =
                    Cardinality({i \in InvocationsOf(g, t) : Done(i)}))
    /\ [][script = "dual" =>
            /\ (\/ stats' # stats
                \/ \E f \in RequestLogs : logs'[f] # logs[f] /\ mainpc # "start")
                  => \E i \in Launched : ~Done(i) /\ inv'[i].pc = "done"
            /\ \A i \in Launched :
                  (inv'[i] # inv[i] /\ inv'[i].pc # "done") =>
                      /\ stats' = stats
                      /\ logs' = logs
            /\ now' # now => (stats' = stats /\ logs' = logs)]_vars

\* one invocation has returned and is counted; another of the same gateway
\* and call type is in its third attempt and has changed no counter
C20_Witness ==
    /\ script = "dual"
    /\ \E i, j \in Launched :
          /\ inv[i].g = inv[j].g /\ inv[i].t = inv[j].t
          /\ Done(j)
          /\ inv[i].pc = "post" /\ inv[i].attempts = 3
          /\ stats[inv[i].g][inv[i].t].requests = 1
          /\ stats[inv[i].g][inv[i].t].retries = 0
          /\ Len(logs[LogFileOf(script, inv[i].g, inv[i].t)]) = 2

\* the settled invocations of gateway g and call type t that returned
\* success / failure
SucceededOf(g, t) == {i \in InvocationsOf(g, t) : Done(i) /\ inv[i].result.success}
FailedOf(g, t) == {i \in InvocationsOf(g, t) : Done(i) /\ ~inv[i].result.success}

\* C21: in the dual script, once every invocation of a gateway and call
\* type has settled, that pair's `requests` counter equals the number of
\* invocations launched for it, and `success` and `failure` equal the
\* numbers of invocations that returned success and failure: no increment
\* is lost, in whatever order the invocations terminate.
C21_NoLostCounterUpdate ==
    script = "dual" =>
        \A g \in Gateways, t \in Types :
            (\A i \in InvocationsOf(g, t) : Done(i)) =>
                /\ stats[g][t].requests = Cardinality(InvocationsOf(g, t))
                /\ stats[g][t].success = Cardinality(SucceededOf(g, t))
                /\ stats[g][t].failure = Cardinality(FailedOf(g, t))

\* two invocations of one gateway and call type return in the same
\* millisecond
C21_Witness ==
    /\ script = "dual"
    /\ \E i, j \in Launched :
          /\ i # j
          /\ inv[i].g = inv[j].g /\ inv[i].t = inv[j].t
          /\ Done(i) /\ Done(j)
          /\ inv[i].endTime = inv[j].endTime
          /\ stats[inv[i].g][inv[i].t].requests = 2
          /\ stats[inv[i].g][inv[i].t].success = 2

RECURSIVE SumRetryCounts(_)
\* the sum of the retry counts of the outcomes of the invocations in S
SumRetryCounts(S) ==
    IF S = {} THEN 0
    ELSE LET i == CHOOSE j \in S : TRUE
         IN  inv[i].result.retryCount + SumRetryCounts(S \ {i})

RECURSIVE SumRetriesMade(_)
\* the number of attempts after the first made by the invocations in S
SumRetriesMade(S) ==
    IF S = {} THEN 0
    ELSE LET i == CHOOSE j \in S : TRUE
         IN  (inv[i].attempts - 1) + SumRetriesMade(S \ {i})

\* every invocation of the batch succeeded at its first attempt
AllFirstAttemptsSucceeded ==
    \A i \in Launched : Done(i) /\ inv[i].attempts = 1 /\ inv[i].fails = 0

\* C22: the total-retries figure of a summary (the LLM retry script's
\* "Total Retries", the dual script's "Retries" of a gateway and call type)
\* is the sum of the retry counts of all outcomes it covers, failed ones
\* included, which is the number of retries made; and when every first
\* attempt succeeded the summary shows successes = N, failures = 0 and no
\* retries.
C22_TotalRetries ==
    summary.written =>
        /\ script = "llmRetry" =>
              /\ summary.totalRetries = SumRetryCounts(Launched)
              /\ summary.totalRetries = SumRetriesMade(Launched)
        /\ script = "dual" =>
              \A g \in Gateways, t \in Types :
                 /\ gwSummary[g][t].retries = SumRetryCounts(InvocationsOf(g, t))
                 /\ gwSummary[g][t].retries = SumRetriesMade(InvocationsOf(g, t))
        /\ AllFirstAttemptsSucceeded =>
              IF script = "dual"
              THEN \A g \in Gateways, t \in Types :
                      /\ gwSummary[g][t].success = ConfiguredFor(g, t)
                      /\ gwSummary[g][t].failures = 0
                      /\ gwSummary[g][t].retries = 0
              ELSE /\ summary.successes = cfg.n
                   /\ summary.failures = 0
                   /\ summary.totalRetries \in {0, Absent}
                   /\ summary.retried \in {0, Absent}

\* a summary of the dual script that covers an invocation that failed for
\* good and one that succeeded after one retry
C22_Witness ==
    /\ summary.written
    /\ script = "dual"
    /\ \E i, j \in Launched :
          /\ inv[i].g = inv[j].g /\ inv[i].t = inv[j].t
          /\ ~inv[i].result.success /\ inv[i].result.retryCount = 3
          /\ inv[j].result.success /\ inv[j].result.retryCount = 1
          /\ gwSummary[inv[i].g][inv[i].t].retries = 4

\* the URL of gateway g is given
GatewayConfigured(g) == IF g = 1 THEN cfg.gw1 ELSE cfg.gw2

\* the test mode selects call type t
TypeSelected(t) == IF t = "image" THEN WantsImage(cfg) ELSE WantsLLM(cfg)

\* main has made all its makeRequest calls
LaunchDone == mainpc = "await" \/ (mainpc = "exited" /\ summary.written)

\* C23: in the dual script, once main has made its makeRequest calls, for
\* every gateway whose URL is given and every call type the test mode
\* selects exactly CONCURRENT_REQUESTS invocations of that type have been
\* launched against that gateway, and none for any other gateway or type.
C23_ConcurrencyPerGatewayAndType ==
    (script = "dual" /\ LaunchDone) =>
        \A g \in Gateways, t \in Types :
            Cardinality(InvocationsOf(g, t)) =
                IF GatewayConfigured(g) /\ TypeSelected(t) THEN cfg.n ELSE 0

\* the positions of the `--flag=value` arguments of the setting's flag, and
\* the value such an argument carries: what follows the `=`
FlagArgs ==
    {k \in 1..Len(setting.args) :
        startsWith(setting.args[k], FlagPrefix(setting.flag))}

ValueOf(arg) == SubSeq(arg, Len(setting.flag) + 4, Len(arg))

EnvValue == setting.env[setting.envVar]

\* C24 as stated: getArgValue returns the value of a `--flag=value`
\* argument when there is one, else the value of the environment variable
\* when it is set, else the default.
C24_FlagEnvDefault ==
    setting.resolved # Unresolved =>
        IF FlagArgs # {}
        THEN \E k \in FlagArgs : setting.resolved = ValueOf(setting.args[k])
        ELSE IF EnvValue # Undefined
        THEN setting.resolved = EnvValue
        ELSE setting.resolved = setting.defaultValue

\* C24: getArgValue returns the value of the first `--flag=value` argument
\* when there is one, whatever the environment holds; otherwise the value of
\* the environment variable when it is set and not empty; otherwise (unset
\* or empty) the default.
C24_FlagNonEmptyEnvDefault ==
    setting.resolved # Unresolved =>
        IF FlagArgs # {}
        THEN \E k \in FlagArgs :
                /\ \A j \in FlagArgs : k <= j
                /\ setting.resolved = ValueOf(setting.args[k])
        ELSE IF EnvValue \notin {Undefined, <<>>}
        THEN setting.resolved = EnvValue
        ELSE setting.resolved = setting.defaultValue

\* two arguments give the flag, the environment variable is set too, and
\* the first argument's value is returned
C24_Witness ==
    /\ setting.flag = <<"t">>
    /\ setting.args = << <<"-", "-", "t", "=", "y">>, <<"-", "-", "t", "=", "x">> >>
    /\ EnvValue = <<"e">>
    /\ setting.resolved = <<"y">>

TotalCounted ==
    stats[1]["llm"].requests + stats[1]["image"].requests
        + stats[2]["llm"].requests + stats[2]["image"].requests

\* C26: in the dual script every counter record has requests = success +
\* failure in every reachable state, and once the batch has completed the
\* four `requests` counters add up to tasks.length, the number of launched
\* tasks reported as "Total requests attempted".
C26_RequestsAddUp ==
    script = "dual" =>
        /\ \A g \in Gateways, t \in Types :
              stats[g][t].requests = stats[g][t].success + stats[g][t].failure
        /\ summary.written =>
              /\ summary.total = Len(inv)
              /\ TotalCounted = summary.total

\* a completed batch of two tasks of different call types, one succeeded and
\* one failed
C26_Witness ==
    /\ script = "dual"
    /\ summary.written
    /\ summary.total = 2
    /\ \E g \in Gateways :
          /\ stats[g]["llm"].success = 1 /\ stats[g]["llm"].requests = 1
          /\ stats[g]["image"].failure = 1 /\ stats[g]["image"].requests = 1

\* the gateway/type combinations other than that of invocation i
OtherPairs(i) ==
    {p \in Gateways \X Types : p # <<inv[i].g, inv[i].t>>}

\* C27: in the dual script a step of an invocation for gateway g and call
\* type t changes no counter record but that of (g, t) and no log file but
\* that of (g, t), to which it only appends; the counters and log files of
\* the other three combinations, the summary file and the error log are as
\* they were.
C27_InvocationFrame ==
    [][script = "dual" =>
          \A i \in Launched :
             inv'[i] # inv[i] =>
                /\ \A p \in OtherPairs(i) :
                      /\ stats'[p[1]][p[2]] = stats[p[1]][p[2]]
                      /\ logs'[LogFileOf("dual", p[1], p[2])]
                            = logs[LogFileOf("dual", p[1], p[2])]
                /\ IsPrefix(logs[LogFileOf("dual", inv[i].g, inv[i].t)],
                            logs'[LogFileOf("dual", inv[i].g, inv[i].t)])
                /\ \A f \in LogFiles \ RequestLogs : logs'[f] = logs[f]]_vars

\* an invocation has returned and is counted and logged under its own
\* gateway and call type, while one of another call type is still running
\* with its counters at zero and its log file holding the header only
C27_Witness ==
    /\ script = "dual"
    /\ \E i, j \in Launched :
          /\ <<inv[i].g, inv[i].t>> # <<inv[j].g, inv[j].t>>
          /\ Done(i) /\ ~Done(j)
          /\ stats[inv[i].g][inv[i].t].requests = 1
          /\ Len(logs[LogFileOf("dual", inv[i].g, inv[i].t)]) = 2
          /\ stats[inv[j].g][inv[j].t] = ZeroStats
          /\ logs[LogFileOf("dual", inv[j].g, inv[j].t)] = <<HeaderLine>>

\* exactly one of the two gateway URLs is given
OneGatewayOnly == script = "dual" /\ cfg.gw1 # cfg.gw2

\* the gateway whose URL is not given
Unconfigured == IF cfg.gw1 THEN 2 ELSE 1

\* C28: in the dual script with exactly one gateway URL given the run is not
\* refused, no invocation is ever launched against the other gateway, whose
\* counters stay at zero; the summary reports that gateway with Total 0,
\* no successes, failures or retries, and average duration 0, not NaN.
C28_UnconfiguredGatewayUntouched ==
    OneGatewayOnly =>
        /\ exitCode # 1
        /\ stderr # <<"gateway URL not set">>
        /\ \A i \in Launched : inv[i].g # Unconfigured
        /\ \A t \in Types : stats[Unconfigured][t] = ZeroStats
        /\ summary.written =>
              \A t \in Types :
                 /\ gwSummary[Unconfigured][t].total = 0
                 /\ gwSummary[Unconfigured][t].success = 0
                 /\ gwSummary[Unconfigured][t].failures = 0
                 /\ gwSummary[Unconfigured][t].retries = 0
                 /\ gwSummary[Unconfigured][t].avgCenti = 0

\* a completed run against gateway 2 only, with requests counted for it and
\* the summary reporting gateway 1 with Total 0 and average 0
C28_Witness ==
    /\ OneGatewayOnly
    /\ Unconfigured = 1
    /\ summary.written
    /\ gwSummary[2]["llm"].total = 2
    /\ gwSummary[1]["llm"].total = 0
    /\ gwSummary[1]["llm"].avgCenti = 0

\* C29: in every summary of the image script, "Successfully retried
\* requests" is at most "Requests that needed retries" and at most
\* Successes, and "Requests that needed retries" equals Failures plus
\* "Successfully retried requests": a failed request has used its 3 retries
\* and is counted as retried.
C29_RetriedCounts ==
    (script = "image" /\ summary.written) =>
        /\ summary.retriedSuccess <= summary.retried
        /\ summary.retriedSuccess <= summary.successes
        /\ summary.retried = summary.failures + summary.retriedSuccess
        /\ \A i \in Launched :
              ~inv[i].result.success => inv[i].result.retryCount = 3

\* a summary over one request that failed for good and one that succeeded
\* at its second attempt
C29_Witness ==
    /\ script = "image"
    /\ summary.written
    /\ summary.failures = 1
    /\ summary.successes = 1
    /\ summary.retriedSuccess = 1
    /\ summary.retried = 2

====
